---------------------------- MODULE Spec2Model ----------------------------
(* Chat relay of HartfordAI/AIApiConnect: the routes of registerRoutes      *)
(* (GET/DELETE /api/messages/:sessionId, POST /api/chat) over the message   *)
(* storage.  A handler runs from one suspension point to the next without   *)
(* interleaving (single-threaded event loop); the provider call is the one  *)
(* suspension point of POST /api/chat.  A handler's locals live until it    *)
(* returns.                                                                 *)
EXTENDS Integers, Sequences, FiniteSets, TLC

(* ------------------------------ bounds --------------------------------- *)
MaxReqs == 2

\* longest message list the history mapping is applied to on its own
MaxLen == 3

\* most calls of sendMessageMutation.mutate on one page
MaxSends == 2

Reqs == 1..MaxReqs

(* ------------------------------ values --------------------------------- *)
\* strings are sequences of characters, so that trimming is computed
SP == " "

Sentinel == <<"N","o",SP,"r","e","s","p","o","n","s","e",SP,"r","e","c","e","i","v","e","d">>

None == <<>>

Some(x) == <<x>>

Sessions == {"s1", "s2"}

\* provider strings a request body may carry: one the router dispatches to
\* (the openai branch differs from it in transport only), one of the enum
\* the router does not dispatch to, and one outside the enum
BodyProviders == {"deepseek", "puter", "bard"}

\* message strings a request body may carry
BodyMessages == {<<>>, <<SP>>, <<"h","i">>}

\* text a provider may put in choices[0].message.content
ReplyTexts == {<<>>, <<SP>>, <<"o","k">>}

\* the provider enum of the request schema
ProviderEnum == {"openai", "deepseek", "puter"}

\* the providers POST /api/chat dispatches to
Handled == {"openai", "deepseek"}

\* JSON bodies a provider may answer a completion request with
ResponseBodies ==
    {[choices |-> None],
     [choices |-> Some(<<>>)],
     [choices |-> Some(<<[message |-> None]>>)],
     [choices |-> Some(<<[message |-> Some([content |-> None])]>>)]}
    \cup {[choices |-> Some(<<[message |-> Some([content |-> Some(c)])]>>)] : c \in ReplyTexts}

\* ways the provider call itself fails: the request rejects, the status is
\* not a success (rejected credentials included), the body is not JSON
FailureKinds == {"network", "status", "json"}

(* --------------------------- pure functions ---------------------------- *)
RECURSIVE TrimStart(_)
TrimStart(s) == IF s # <<>> /\ Head(s) = SP THEN TrimStart(Tail(s)) ELSE s

RECURSIVE TrimEnd(_)
TrimEnd(s) == IF s # <<>> /\ s[Len(s)] = SP THEN TrimEnd(SubSeq(s, 1, Len(s) - 1)) ELSE s

Trim(s) == TrimEnd(TrimStart(s))

\* chatRequestSchema.parse: TRUE when the body is accepted
SchemaAccepts(body) == body.message # <<>> /\ body.provider \in ProviderEnum

\* data.choices[0]?.message?.content || "No response received"
\* threw = TRUE models the TypeError of indexing an undefined choices
ExtractReply(data) ==
    IF data.choices = None THEN [threw |-> TRUE, text |-> <<>>]
    ELSE LET choices == data.choices[1]
             first   == IF Len(choices) = 0 THEN None ELSE Some(choices[1])
             message == IF first = None THEN None ELSE first[1].message
             content == IF message = None THEN None ELSE message[1].content
         IN  [threw |-> FALSE,
              text  |-> IF content = None \/ content[1] = <<>> THEN Sentinel ELSE content[1]]

\* mutant: messages whose role is neither user nor assistant are left out
RECURSIVE ConversationHistoryMappedOnly(_)
ConversationHistoryMappedOnly(msgs) ==
    IF msgs = <<>> THEN <<>>
    ELSE (IF Head(msgs).role \in {"user", "assistant"}
          THEN <<[role |-> Head(msgs).role, content |-> Head(msgs).content]>>
          ELSE <<>>)
         \o ConversationHistoryMappedOnly(Tail(msgs))

\* mutant: only the two newest messages are sent
ConversationHistoryTruncated(msgs) ==
    LET n == IF Len(msgs) < 2 THEN Len(msgs) ELSE 2
    IN  [i \in 1..n |-> [role    |-> msgs[Len(msgs) - n + i].role,
                         content |-> msgs[Len(msgs) - n + i].content]]

\* messages.map(msg => ({ role: msg.role, content: msg.content }))
RECURSIVE ConversationHistory(_)
ConversationHistory(msgs) ==
    IF msgs = <<>> THEN <<>>
    ELSE <<[role |-> Head(msgs).role, content |-> Head(msgs).content]>>
         \o ConversationHistory(Tail(msgs))

(* ------------------------------- state --------------------------------- *)
VARIABLES
    store,      \* storage: every message, in creation order
    nextId,     \* storage: next fresh message id
    running,    \* the request whose handler is executing, 0 when none
    pc,         \* per request: position in the POST /api/chat handler
    req,        \* per request: the parsed body
    userMsg,    \* per request: result of the first createMessage
    messages,   \* per request: the list storage.getMessages returned
    history,    \* per request: conversationHistory sent to the provider
    data,       \* per request: body of the provider's response
    aiResponse, \* per request: the extracted reply text
    response,   \* per request: what res.status().json() sent
    listing,    \* GET /api/messages/:sessionId: the list being answered
    pageMessage,  \* chat page: message (the input text)
    pageProvider, \* chat page: provider (the selected provider)
    apiKey,       \* chat page: apiKey
    isPending,    \* chat page: sendMessageMutation.isPending
    inflight,     \* chat page: the running executions of mutationFn
    cache,        \* chat page: query data of ["/api/messages", sessionId]
    posts,        \* chat page: the requests apiRequest has issued, not yet answered
    sends,        \* chat page: number of sendMessageMutation.mutate calls
    sessionKeys   \* chat page: sessionStorage items apiKey-<provider>

\* the state of the chat page
pageVars == <<pageMessage, pageProvider, apiKey, isPending, inflight, cache, posts, sends,
              sessionKeys>>

\* the state of the storage and of the POST /api/chat handlers
chatVars == <<store, nextId, running, pc, req, userMsg, messages, history, data, aiResponse,
              response>>

vars == <<store, nextId, running, pc, req, userMsg, messages, history, data, aiResponse, response,
          listing, pageVars>>

(* ------------------------------ storage -------------------------------- *)
\* the messages of one session, in creation order
TranscriptOf(all, s) == SelectSeq(all, LAMBDA m : m.sessionId = s)

\* storage.getMessages(sessionId)
GetMessages(s) == TranscriptOf(store, s)

\* mutant: the storage validates nothing
StoreAcceptsAnything(content) == TRUE

\* storage.createMessage validation: content must not be empty after trimming
StoreAccepts(content) == Trim(content) # <<>>

NewMessage(s, role, content, provider) ==
    [id |-> nextId, sessionId |-> s, role |-> role, content |-> content, provider |-> provider]

\* storage.createMessage(insert)
CreateMessage(s, role, content, provider) ==
    /\ store' = Append(store, NewMessage(s, role, content, provider))
    /\ nextId' = nextId + 1

\* storage.clearMessages(sessionId)
ClearMessagesOf(s) == SelectSeq(store, LAMBDA m : m.sessionId # s)

(* ------------------------------ responses ------------------------------ *)
NoResponse == [status |-> 0, error |-> "", message |-> None]

ErrorResponse(status, error) == [status |-> status, error |-> error, message |-> None]

OkResponse(msg) == [status |-> 200, error |-> "", message |-> Some(msg)]

NoBody == [message |-> <<>>, provider |-> "", sessionId |-> ""]

NoData == [choices |-> None, absent |-> TRUE]

Init ==
    /\ store = <<>>
    /\ nextId = 1
    /\ running = 0
    /\ pc = [r \in Reqs |-> "idle"]
    /\ req = [r \in Reqs |-> NoBody]
    /\ userMsg = [r \in Reqs |-> None]
    /\ messages = [r \in Reqs |-> <<>>]
    /\ history = [r \in Reqs |-> <<>>]
    /\ data = [r \in Reqs |-> NoData]
    /\ aiResponse = [r \in Reqs |-> <<>>]
    /\ response = [r \in Reqs |-> NoResponse]
    /\ listing = None
    /\ pageMessage = <<>>
    /\ pageProvider = "puter"
    /\ apiKey = <<>>
    /\ isPending = FALSE
    /\ inflight = <<>>
    /\ cache = <<>>
    /\ posts = <<>>
    /\ sends = 0
    /\ sessionKeys = [p \in ProviderEnum |-> <<>>]

(* ------------------------- POST /api/chat ------------------------------ *)
\* request slots are taken in order
CanArrive(r) == running = 0 /\ pc[r] = "idle" /\ \A q \in Reqs : q < r => pc[q] # "idle"

\* res.status(..).json(..): the handler's last statement
Respond(r, resp) ==
    /\ pc' = [pc EXCEPT ![r] = "responded"]
    /\ response' = [response EXCEPT ![r] = resp]
    /\ running' = r

\* chatRequestSchema.parse throws a ZodError: status 400
ChatRejectBody(r, body) ==
    /\ CanArrive(r)
    /\ ~SchemaAccepts(body)
    /\ req' = [req EXCEPT ![r] = body]
    /\ Respond(r, ErrorResponse(400, "Invalid request data"))
    /\ UNCHANGED <<listing, pageVars, store, nextId, userMsg, messages, history, data, aiResponse>>

\* the first createMessage throws: status 500
ChatRejectContent(r, body) ==
    /\ CanArrive(r)
    /\ SchemaAccepts(body)
    /\ ~StoreAccepts(body.message)
    /\ req' = [req EXCEPT ![r] = body]
    /\ Respond(r, ErrorResponse(500, "ValidationError"))
    /\ UNCHANGED <<listing, pageVars, store, nextId, userMsg, messages, history, data, aiResponse>>

\* mutant: the user message is built but its storing is left for later
ChatStoreUserDeferred(r, body) ==
    /\ CanArrive(r)
    /\ SchemaAccepts(body)
    /\ StoreAccepts(body.message)
    /\ req' = [req EXCEPT ![r] = body]
    /\ userMsg' = [userMsg EXCEPT ![r] =
                     Some(NewMessage(body.sessionId, "user", body.message, body.provider))]
    /\ pc' = [pc EXCEPT ![r] = "userStored"]
    /\ running' = r
    /\ UNCHANGED <<listing, pageVars, store, nextId, messages, history, data, aiResponse, response>>

\* parse succeeds and the user message is stored, tagged with the provider
ChatStoreUser(r, body) ==
    /\ CanArrive(r)
    /\ SchemaAccepts(body)
    /\ StoreAccepts(body.message)
    /\ req' = [req EXCEPT ![r] = body]
    /\ CreateMessage(body.sessionId, "user", body.message, body.provider)
    /\ userMsg' = [userMsg EXCEPT ![r] =
                     Some(NewMessage(body.sessionId, "user", body.message, body.provider))]
    /\ pc' = [pc EXCEPT ![r] = "userStored"]
    /\ running' = r
    /\ UNCHANGED <<listing, pageVars, messages, history, data, aiResponse, response>>

\* provider === "openai" / "deepseek": read the history and start the call
ChatCallProvider(r) ==
    /\ running = r
    /\ pc[r] = "userStored"
    /\ req[r].provider \in Handled
    /\ messages' = [messages EXCEPT ![r] = GetMessages(req[r].sessionId)]
    /\ history' = [history EXCEPT ![r] = ConversationHistory(GetMessages(req[r].sessionId))]
    /\ pc' = [pc EXCEPT ![r] = "calling"]
    /\ running' = 0
    /\ UNCHANGED <<listing, pageVars, store, nextId, req, userMsg, data, aiResponse, response>>

\* else branch: throw new Error("Invalid provider")
ChatInvalidProvider(r) ==
    /\ running = r
    /\ pc[r] = "userStored"
    /\ req[r].provider \notin Handled
    /\ Respond(r, ErrorResponse(500, "Invalid provider"))
    /\ UNCHANGED <<listing, pageVars, store, nextId, req, userMsg, messages, history, data, aiResponse>>

\* mutant: the failure text is stored as an assistant message
ProviderFailsStoresError(r, kind) ==
    /\ running = 0
    /\ pc[r] = "calling"
    /\ CreateMessage(req[r].sessionId, "assistant", <<"e", "r", "r">>, req[r].provider)
    /\ Respond(r, ErrorResponse(500, kind))
    /\ UNCHANGED <<listing, pageVars, req, userMsg, messages, history, data, aiResponse>>

\* the provider call rejects, or answers with a non-success status, or its
\* body cannot be parsed
ProviderFails(r, kind) ==
    /\ running = 0
    /\ pc[r] = "calling"
    /\ Respond(r, ErrorResponse(500, kind))
    /\ UNCHANGED <<listing, pageVars, store, nextId, req, userMsg, messages, history, data, aiResponse>>

\* the provider answers with a success status and a JSON body
ProviderReplies(r, body) ==
    /\ running = 0
    /\ pc[r] = "calling"
    /\ data' = [data EXCEPT ![r] = body]
    /\ pc' = [pc EXCEPT ![r] = "received"]
    /\ running' = r
    /\ UNCHANGED <<listing, pageVars, store, nextId, req, userMsg, messages, history, aiResponse, response>>

\* mutant: the extraction error is swallowed and success is answered
ChatExtractThrowsSwallowed(r) ==
    /\ running = r
    /\ pc[r] = "received"
    /\ ExtractReply(data[r]).threw
    /\ Respond(r, [status |-> 200, error |-> "", message |-> None])
    /\ UNCHANGED <<listing, pageVars, store, nextId, req, userMsg, messages, history, data,
                   aiResponse>>

\* reply extraction throws a TypeError: status 500
ChatExtractThrows(r) ==
    /\ running = r
    /\ pc[r] = "received"
    /\ ExtractReply(data[r]).threw
    /\ Respond(r, ErrorResponse(500, "TypeError"))
    /\ UNCHANGED <<listing, pageVars, store, nextId, req, userMsg, messages, history, data, aiResponse>>

\* aiResponse = ...choices[0]?.message?.content || "No response received"
ChatExtractReply(r) ==
    /\ running = r
    /\ pc[r] = "received"
    /\ ~ExtractReply(data[r]).threw
    /\ aiResponse' = [aiResponse EXCEPT ![r] = ExtractReply(data[r]).text]
    /\ pc' = [pc EXCEPT ![r] = "extracted"]
    /\ UNCHANGED <<listing, pageVars, store, nextId, running, req, userMsg, messages, history, data, response>>

\* the second createMessage throws: status 500
ChatRejectReply(r) ==
    /\ running = r
    /\ pc[r] = "extracted"
    /\ ~StoreAccepts(aiResponse[r])
    /\ Respond(r, ErrorResponse(500, "ValidationError"))
    /\ UNCHANGED <<listing, pageVars, store, nextId, req, userMsg, messages, history, data, aiResponse>>

\* mutant: the assistant message is stored without its provider
ChatStoreReplyUntagged(r) ==
    /\ running = r
    /\ pc[r] = "extracted"
    /\ StoreAccepts(aiResponse[r])
    /\ CreateMessage(req[r].sessionId, "assistant", aiResponse[r], "")
    /\ Respond(r, OkResponse(NewMessage(req[r].sessionId, "assistant", aiResponse[r], "")))
    /\ UNCHANGED <<listing, pageVars, req, userMsg, messages, history, data, aiResponse>>

\* mutant: the assistant message is stored twice
ChatStoreReplyTwice(r) ==
    /\ running = r
    /\ pc[r] = "extracted"
    /\ StoreAccepts(aiResponse[r])
    /\ store' = store \o << NewMessage(req[r].sessionId, "assistant", aiResponse[r], req[r].provider),
                            [NewMessage(req[r].sessionId, "assistant", aiResponse[r], req[r].provider)
                                EXCEPT !.id = nextId + 1] >>
    /\ nextId' = nextId + 2
    /\ Respond(r, OkResponse(NewMessage(req[r].sessionId, "assistant", aiResponse[r],
                                        req[r].provider)))
    /\ UNCHANGED <<listing, pageVars, req, userMsg, messages, history, data, aiResponse>>

\* the assistant message is stored and returned
ChatStoreReply(r) ==
    /\ running = r
    /\ pc[r] = "extracted"
    /\ StoreAccepts(aiResponse[r])
    /\ CreateMessage(req[r].sessionId, "assistant", aiResponse[r], req[r].provider)
    /\ Respond(r, OkResponse(NewMessage(req[r].sessionId, "assistant", aiResponse[r],
                                        req[r].provider)))
    /\ UNCHANGED <<listing, pageVars, req, userMsg, messages, history, data, aiResponse>>

\* the handler returns: its locals are gone
ChatReturn(r) ==
    /\ running = r
    /\ pc[r] = "responded"
    /\ pc' = [pc EXCEPT ![r] = "closed"]
    /\ req' = [req EXCEPT ![r] = NoBody]
    /\ userMsg' = [userMsg EXCEPT ![r] = None]
    /\ messages' = [messages EXCEPT ![r] = <<>>]
    /\ history' = [history EXCEPT ![r] = <<>>]
    /\ data' = [data EXCEPT ![r] = NoData]
    /\ aiResponse' = [aiResponse EXCEPT ![r] = <<>>]
    /\ response' = [response EXCEPT ![r] = NoResponse]
    /\ running' = 0
    /\ UNCHANGED <<listing, pageVars, store, nextId>>

(* --------------------- GET /api/messages/:sessionId -------------------- *)
\* the handler reads the session's messages and answers with them
ListMessages(s) ==
    /\ running = 0
    /\ listing' = Some([sessionId |-> s, messages |-> GetMessages(s)])
    /\ running' = -1
    /\ UNCHANGED <<store, nextId, pc, req, userMsg, messages, history, data, aiResponse,
                   response, pageVars>>

\* res.json(messages) is sent and the handler returns
ListReturn ==
    /\ running = -1
    /\ listing' = None
    /\ running' = 0
    /\ UNCHANGED <<store, nextId, pc, req, userMsg, messages, history, data, aiResponse,
                   response, pageVars>>

(* -------------------- DELETE /api/messages/:sessionId ------------------ *)
\* mutant: every session is cleared
ClearMessagesAll(s) ==
    /\ running = 0
    /\ store' = <<>>
    /\ UNCHANGED <<listing, pageVars, nextId, running, pc, req, userMsg, messages, history,
                   data, aiResponse, response>>

ClearMessages(s) ==
    /\ running = 0
    /\ store' = ClearMessagesOf(s)
    /\ UNCHANGED <<listing, pageVars, nextId, running, pc, req, userMsg, messages, history, data, aiResponse, response>>

\* request bodies POST /api/chat may receive
Bodies == [message : BodyMessages, provider : BodyProviders, sessionId : Sessions]

Next ==
    \/ \E r \in Reqs, body \in Bodies : ChatRejectBody(r, body)
    \/ \E r \in Reqs, body \in Bodies : ChatRejectContent(r, body)
    \/ \E r \in Reqs, body \in Bodies : ChatStoreUser(r, body)
    \/ \E r \in Reqs : ChatCallProvider(r)
    \/ \E r \in Reqs : ChatInvalidProvider(r)
    \/ \E r \in Reqs, kind \in FailureKinds : ProviderFails(r, kind)
    \/ \E r \in Reqs, body \in ResponseBodies : ProviderReplies(r, body)
    \/ \E r \in Reqs : ChatExtractThrows(r)
    \/ \E r \in Reqs : ChatExtractReply(r)
    \/ \E r \in Reqs : ChatRejectReply(r)
    \/ \E r \in Reqs : ChatStoreReply(r)
    \/ \E r \in Reqs : ChatReturn(r)
    \/ \E s \in Sessions : ListMessages(s)
    \/ ListReturn
    \/ \E s \in Sessions : ClearMessages(s)

Spec == Init /\ [][Next]_vars

\* a handler that can continue does continue (the event loop runs every
\* ready continuation); the provider is under no obligation to answer
HandlerProgress ==
    /\ WF_vars(\E r \in Reqs : ChatCallProvider(r))
    /\ WF_vars(\E r \in Reqs : ChatInvalidProvider(r))
    /\ WF_vars(\E r \in Reqs : ChatExtractThrows(r))
    /\ WF_vars(\E r \in Reqs : ChatExtractReply(r))
    /\ WF_vars(\E r \in Reqs : ChatRejectReply(r))
    /\ WF_vars(\E r \in Reqs : ChatStoreReply(r))
    /\ WF_vars(\E r \in Reqs : ChatReturn(r))
    /\ WF_vars(ListReturn)

FairSpec == Init /\ [][Next]_vars /\ HandlerProgress

\* the router with no DELETE request arriving
NextNoClear ==
    \/ \E r \in Reqs, body \in Bodies : ChatRejectBody(r, body)
    \/ \E r \in Reqs, body \in Bodies : ChatRejectContent(r, body)
    \/ \E r \in Reqs, body \in Bodies : ChatStoreUser(r, body)
    \/ \E r \in Reqs : ChatCallProvider(r)
    \/ \E r \in Reqs : ChatInvalidProvider(r)
    \/ \E r \in Reqs, kind \in FailureKinds : ProviderFails(r, kind)
    \/ \E r \in Reqs, body \in ResponseBodies : ProviderReplies(r, body)
    \/ \E r \in Reqs : ChatExtractThrows(r)
    \/ \E r \in Reqs : ChatExtractReply(r)
    \/ \E r \in Reqs : ChatRejectReply(r)
    \/ \E r \in Reqs : ChatStoreReply(r)
    \/ \E r \in Reqs : ChatReturn(r)
    \/ \E s \in Sessions : ListMessages(s)
    \/ ListReturn

NoClearSpec == Init /\ [][NextNoClear]_vars

(* ------------------------------ chat page ------------------------------ *)
\* const [sessionId] = useState(...)
PageSession == "s1"

\* texts the textarea may hold
PageMessages == {<<>>, <<SP>>, <<SP,"h","i">>}

\* texts the API key field may hold
ApiKeys == {<<>>, <<SP>>, <<"k">>}

\* lists a fetch of ["/api/messages", sessionId] may bring
CacheLists ==
    { <<>>,
      << [id |-> 1, sessionId |-> PageSession, role |-> "user", content |-> <<"h","i">>,
          provider |-> "puter"],
         [id |-> 2, sessionId |-> PageSession, role |-> "assistant", content |-> <<"o","k">>,
          provider |-> "puter"] >> }

\* what window.puter.ai.chat may resolve to: message?.content and toString()
PuterResponses == [content : {None, Some(<<>>), Some(<<"o","k">>)}, str : {<<>>, <<"s">>}]

\* response.message?.content || response.toString() || "No response received"
AiContent(resp) ==
    IF resp.content # None /\ resp.content[1] # <<>> THEN resp.content[1]
    ELSE IF resp.str # <<>> THEN resp.str
    ELSE Sentinel

\* queryClient.getQueryData(...) || []
CachedMessages == IF cache = None THEN <<>> ELSE cache[1]

Remove(seq, i) == SubSeq(seq, 1, i - 1) \o SubSeq(seq, i + 1, Len(seq))

\* mutant: every request goes through POST /api/chat
MutationFnViaBackend(chatRequest) ==
    /\ inflight' = Append(inflight, [id |-> sends + 1, request |-> chatRequest,
                                     history |-> <<>>, step |-> "chat"])
    /\ posts' = Append(posts, [id |-> sends + 1, url |-> "/api/chat", body |-> chatRequest])

\* mutationFn up to its first wait on the network
MutationFn(chatRequest) ==
    IF chatRequest.provider = "puter"
    THEN /\ inflight' = Append(inflight,
                 [id |-> sends + 1, request |-> chatRequest,
                  history |-> ConversationHistory(CachedMessages)
                                  \o <<[role |-> "user", content |-> chatRequest.message]>>,
                  step |-> "puter"])
         /\ posts' = posts
    ELSE /\ inflight' = Append(inflight, [id |-> sends + 1, request |-> chatRequest,
                                          history |-> <<>>, step |-> "chat"])
         /\ posts' = Append(posts, [id |-> sends + 1, url |-> "/api/chat", body |-> chatRequest])

\* handleTextareaChange
SetMessage(m) ==
    /\ pageMessage' = m
    /\ UNCHANGED <<chatVars, listing, pageProvider, apiKey, isPending, inflight, cache, posts,
                   sends, sessionKeys>>

\* setProvider, then the two sessionStorage effects
SetProvider(p) ==
    /\ p # pageProvider
    /\ pageProvider' = p
    /\ IF sessionKeys[p] # <<>>
       THEN /\ apiKey' = sessionKeys[p]
            /\ sessionKeys' = sessionKeys
       ELSE /\ apiKey' = apiKey
            /\ sessionKeys' = IF apiKey # <<>> THEN [sessionKeys EXCEPT ![p] = apiKey]
                                               ELSE sessionKeys
    /\ UNCHANGED <<chatVars, listing, pageMessage, isPending, inflight, cache, posts, sends>>

\* setApiKey, then the storing effect
SetApiKey(k) ==
    /\ apiKey' = k
    /\ sessionKeys' = IF k # <<>> THEN [sessionKeys EXCEPT ![pageProvider] = k] ELSE sessionKeys
    /\ UNCHANGED <<chatVars, listing, pageMessage, pageProvider, isPending, inflight, cache,
                   posts, sends>>

\* the query of ["/api/messages", sessionId] brings a list
Refetch(list) ==
    /\ cache' = Some(list)
    /\ UNCHANGED <<chatVars, listing, pageMessage, pageProvider, apiKey, isPending, inflight,
                   posts, sends, sessionKeys>>

\* mutant: a send is started while another one is pending
HandleSendMessageWhilePending ==
    IF Trim(pageMessage) = <<>>
    THEN UNCHANGED vars
    ELSE IF pageProvider # "puter" /\ Trim(apiKey) = <<>>
    THEN UNCHANGED vars
    ELSE /\ sends < MaxSends
         /\ MutationFn([message |-> Trim(pageMessage), provider |-> pageProvider,
                        sessionId |-> PageSession,
                        apiKey |-> IF pageProvider = "puter" THEN None ELSE Some(apiKey)])
         /\ isPending' = TRUE
         /\ sends' = sends + 1
         /\ UNCHANGED <<chatVars, listing, pageMessage, pageProvider, apiKey, cache, sessionKeys>>

\* handleSendMessage: the send button or Enter
HandleSendMessage ==
    IF Trim(pageMessage) = <<>> \/ isPending
    THEN UNCHANGED vars
    ELSE IF pageProvider # "puter" /\ Trim(apiKey) = <<>>
    THEN UNCHANGED vars
    ELSE /\ sends < MaxSends
         /\ MutationFn([message |-> Trim(pageMessage), provider |-> pageProvider,
                        sessionId |-> PageSession,
                        apiKey |-> IF pageProvider = "puter" THEN None ELSE Some(apiKey)])
         /\ isPending' = TRUE
         /\ sends' = sends + 1
         /\ UNCHANGED <<chatVars, listing, pageMessage, pageProvider, apiKey, cache, sessionKeys>>

\* the mutation settles: the observer follows the newest mutation
Settle(i) ==
    /\ inflight' = Remove(inflight, i)
    /\ isPending' = IF i = Len(inflight) THEN FALSE ELSE isPending

\* onSuccess: the query is invalidated and the input emptied
OnSuccess(i) ==
    /\ Settle(i)
    /\ pageMessage' = <<>>

\* onError: a toast, the input stays
OnError(i) ==
    /\ Settle(i)
    /\ pageMessage' = pageMessage

\* window.puter.ai.chat resolves: the reply is posted to /api/ai-response
PuterReplies(i, resp) ==
    /\ i \in DOMAIN inflight
    /\ inflight[i].step = "puter"
    /\ posts' = Append(posts, [id |-> inflight[i].id, url |-> "/api/ai-response",
                               body |-> [content |-> AiContent(resp), provider |-> "puter",
                                         sessionId |-> PageSession]])
    /\ inflight' = [inflight EXCEPT ![i].step = "storing"]
    /\ UNCHANGED <<chatVars, listing, pageMessage, pageProvider, apiKey, isPending, cache,
                   sends, sessionKeys>>

\* window.puter.ai.chat throws or rejects
PuterFails(i) ==
    /\ i \in DOMAIN inflight
    /\ inflight[i].step = "puter"
    /\ OnError(i)
    /\ UNCHANGED <<chatVars, listing, pageProvider, apiKey, cache, posts, sends, sessionKeys>>

\* requests of the mutation with the given id taken off the network
Answered(id) == SelectSeq(posts, LAMBDA p : p.id # id)

\* apiRequest resolves (and response.json() with it)
RequestReturns(i) ==
    /\ i \in DOMAIN inflight
    /\ inflight[i].step \in {"storing", "chat"}
    /\ posts' = Answered(inflight[i].id)
    /\ OnSuccess(i)
    /\ UNCHANGED <<chatVars, listing, pageProvider, apiKey, cache, sends, sessionKeys>>

\* apiRequest or response.json() throws
RequestFails(i) ==
    /\ i \in DOMAIN inflight
    /\ inflight[i].step \in {"storing", "chat"}
    /\ posts' = Answered(inflight[i].id)
    /\ OnError(i)
    /\ UNCHANGED <<chatVars, listing, pageProvider, apiKey, cache, sends, sessionKeys>>

PageNext ==
    \/ \E m \in PageMessages : SetMessage(m)
    \/ \E p \in ProviderEnum : SetProvider(p)
    \/ \E k \in ApiKeys : SetApiKey(k)
    \/ \E list \in CacheLists : Refetch(list)
    \/ HandleSendMessage
    \/ \E i \in 1..MaxSends, resp \in PuterResponses : PuterReplies(i, resp)
    \/ \E i \in 1..MaxSends : PuterFails(i)
    \/ \E i \in 1..MaxSends : RequestReturns(i)
    \/ \E i \in 1..MaxSends : RequestFails(i)

PageSpec == Init /\ [][PageNext]_vars

(* ------------------- the history mapping on its own -------------------- *)
\* messages a message list handed to the mapping may hold, of any role
AnyRoleMessages ==
    [id : {0}, sessionId : {"s1"}, role : {"user", "assistant", "system"},
     content : {<<"h","i">>, <<"o","k">>}, provider : {""}]

AnyRoleLists == UNION {[1..n -> AnyRoleMessages] : n \in 0..MaxLen}

\* request 1 holds a list returned by getMessages and is about to map it
HistoryInit ==
    /\ store = <<>>
    /\ nextId = 1
    /\ running = 1
    /\ pc = [r \in Reqs |-> IF r = 1 THEN "userStored" ELSE "idle"]
    /\ req = [r \in Reqs |-> IF r = 1 THEN [message |-> <<"h","i">>, provider |-> "deepseek",
                                            sessionId |-> "s1"]
                                     ELSE NoBody]
    /\ userMsg = [r \in Reqs |-> None]
    /\ messages \in {[r \in Reqs |-> IF r = 1 THEN l ELSE <<>>] : l \in AnyRoleLists}
    /\ history = [r \in Reqs |-> <<>>]
    /\ data = [r \in Reqs |-> NoData]
    /\ aiResponse = [r \in Reqs |-> <<>>]
    /\ response = [r \in Reqs |-> NoResponse]
    /\ listing = None
    /\ pageMessage = <<>>
    /\ pageProvider = "puter"
    /\ apiKey = <<>>
    /\ isPending = FALSE
    /\ inflight = <<>>
    /\ cache = <<>>
    /\ posts = <<>>
    /\ sends = 0
    /\ sessionKeys = [p \in ProviderEnum |-> <<>>]

\* const conversationHistory = messages.map(...), then the call starts
MapHistory ==
    /\ running = 1
    /\ pc[1] = "userStored"
    /\ history' = [history EXCEPT ![1] = ConversationHistory(messages[1])]
    /\ pc' = [pc EXCEPT ![1] = "calling"]
    /\ running' = 0
    /\ UNCHANGED <<store, nextId, req, userMsg, messages, data, aiResponse, response, listing,
                   pageVars>>

HistorySpec == HistoryInit /\ [][MapHistory]_vars

(* ============================= properties ============================== *)
\* request r takes a step of its handler
Steps(r) == pc'[r] # pc[r]

\* request r's body is accepted and its user message stored
Accepted(r) == pc[r] = "idle" /\ pc'[r] = "userStored"

\* request r ends in an error after its provider call was started
FailsAfterCall(r) ==
    /\ pc[r] \in {"calling", "received", "extracted"}
    /\ pc'[r] = "responded"
    /\ response'[r].status # 200

\* request r ends in success
Succeeds(r) == pc[r] = "extracted" /\ pc'[r] = "responded" /\ response'[r].status = 200

Last(seq) == seq[Len(seq)]

Front(seq) == SubSeq(seq, 1, Len(seq) - 1)

(* C1: a chat request whose provider is not openai or deepseek ends in an   *)
(* error and none of its steps changes the store.                           *)
C1_UnsupportedProviderNoMutation ==
    [][\A r \in Reqs :
         (Steps(r) /\ pc'[r] # "closed" /\ req'[r].provider \notin Handled)
         => /\ store' = store
            /\ pc'[r] = "responded"
            /\ response'[r].status \in {400, 500}]_vars

(* C2: when the provider call of a chat request fails, the request has      *)
(* appended exactly one message, its user message: accepting the request    *)
(* appends the user message, starting the call and receiving the answer     *)
(* append nothing, and the failing step appends nothing and answers the     *)
(* caller with status 500 and no message.                                   *)
C2_ProviderFailureKeepsUserMessageOnly ==
    [][\A r \in Reqs :
         /\ Accepted(r) =>
              /\ Len(store') = Len(store) + 1
              /\ SubSeq(store', 1, Len(store)) = store
              /\ Last(store').role = "user"
              /\ Last(store').content = req'[r].message
              /\ Last(store').sessionId = req'[r].sessionId
         /\ (Steps(r) /\ pc'[r] \in {"calling", "received", "extracted"}) => store' = store
         /\ FailsAfterCall(r) =>
              /\ store' = store
              /\ response'[r].status = 500
              /\ response'[r].error # ""
              /\ response'[r].message = None]_vars

\* a provider call has failed and the session holds the user message alone
C2_Witness ==
    \E r \in Reqs :
        /\ pc[r] = "responded"
        /\ response[r].status = 500
        /\ response[r].error \in FailureKinds \cup {"TypeError"}
        /\ userMsg[r] # None
        /\ GetMessages(req[r].sessionId) = <<userMsg[r][1]>>
        /\ userMsg[r][1].role = "user"
        /\ userMsg[r][1].content = req[r].message

(* C3: a successful chat request on session s with provider p and message m *)
(* appends a user message with content m when it is accepted and an         *)
(* assistant message with the extracted reply and provider p when it        *)
(* succeeds, and returns that assistant message; with no other operation on *)
(* s in between, the transcript of s is the one before the request followed *)
(* by these two messages, in that order.                                    *)
C3_SuccessAppendsUserThenAssistant ==
    [][\A r \in Reqs :
         /\ Accepted(r) =>
              LET s == req'[r].sessionId
                  T == TranscriptOf(store', s)
              IN  /\ Front(T) = TranscriptOf(store, s)
                  /\ userMsg'[r] = Some(Last(T))
                  /\ Last(T).role = "user"
                  /\ Last(T).content = req'[r].message
         /\ Succeeds(r) =>
              LET s  == req[r].sessionId
                  T  == TranscriptOf(store', s)
                  ai == Last(T)
              IN  /\ Front(T) = TranscriptOf(store, s)
                  /\ Len(store') = Len(store) + 1
                  /\ ai.role = "assistant"
                  /\ ai.content = aiResponse[r]
                  /\ ai.provider = req[r].provider
                  /\ req[r].provider \in Handled
                  /\ response'[r].message = Some(ai)
                  /\ TranscriptOf(store, s) = messages[r]
                       => /\ Len(T) >= 2
                          /\ T[Len(T) - 1] = userMsg[r][1]
                          /\ T[Len(T) - 1].content = req[r].message
                          /\ T[Len(T) - 1].role = "user"
                          /\ userMsg[r][1].id < ai.id]_vars

\* a request has succeeded and its session holds its two messages
C3_Witness ==
    \E r \in Reqs :
        /\ pc[r] = "responded"
        /\ response[r].status = 200
        /\ GetMessages(req[r].sessionId) = <<userMsg[r][1], response[r].message[1]>>
        /\ response[r].message[1].content = <<"o", "k">>
        /\ response[r].message[1].provider = "deepseek"

\* the last user message of session b.sessionId is b's, unanswered, and no
\* request on that session is in progress: an earlier attempt of b failed
RepeatsFailedAttempt(b) ==
    LET T == GetMessages(b.sessionId)
    IN  /\ b.provider \in Handled
        /\ T # <<>>
        /\ Last(T).role = "user"
        /\ Last(T).content = b.message
        /\ Last(T).provider = b.provider
        /\ \A q \in Reqs : pc[q] \in {"idle", "closed"}

(* C4: after a chat request on session s with message m has failed at the   *)
(* provider, a retry of the same request does not append m again: the       *)
(* transcript of s is left as it is and the retry sends the history the     *)
(* failed attempt sent.                                                     *)
C4_RetryDoesNotReappend ==
    [][\A r \in Reqs :
         (Accepted(r) /\ RepeatsFailedAttempt(req'[r]))
         => TranscriptOf(store', req'[r].sessionId) = TranscriptOf(store, req'[r].sessionId)]_vars

(* C5: a provider call is started only by a request whose user message is   *)
(* stored, and an assistant message is appended only by a request whose     *)
(* provider call has answered and whose user message was stored before.     *)
C5_AppendBeforeCallBeforeReply ==
    [][/\ \A r \in Reqs :
            (pc[r] # "calling" /\ pc'[r] = "calling")
            => /\ pc[r] = "userStored"
               /\ userMsg[r] # None
               /\ GetMessages(req[r].sessionId) # <<>>
               /\ Last(GetMessages(req[r].sessionId)) = userMsg[r][1]
               /\ userMsg[r][1].role = "user"
               /\ userMsg[r][1].content = req[r].message
               /\ store' = store
       /\ (Len(store') > Len(store) /\ Last(store').role = "assistant")
            => \E r \in Reqs :
                 /\ pc[r] = "extracted"
                 /\ data[r] \in ResponseBodies
                 /\ userMsg[r] # None
                 /\ userMsg[r][1].id < Last(store').id
                 /\ userMsg[r] = Some(Last(messages[r]))
                 /\ Last(store').sessionId = req[r].sessionId]_vars

\* a provider call is pending, the user message stored and no reply yet
C5_Witness ==
    \E r \in Reqs :
        /\ pc[r] = "calling"
        /\ userMsg[r] # None
        /\ store = <<userMsg[r][1]>>

(* C6: the history a chat request sends is the whole transcript of its      *)
(* session as the store holds it when the call starts, message by message   *)
(* in store order, ending with the request's own user message; a request    *)
(* that succeeds with nothing else done on the session in between leaves a  *)
(* transcript one longer than the history it sent.                          *)
C6_HistoryIsWholeTranscript ==
    [][\A r \in Reqs :
         /\ (pc[r] = "userStored" /\ pc'[r] = "calling") =>
              LET T == GetMessages(req[r].sessionId)
                  h == history'[r]
              IN  /\ Len(h) = Len(T)
                  /\ \A i \in 1..Len(T) :
                       h[i] = [role |-> T[i].role, content |-> T[i].content]
                  /\ T # <<>>
                  /\ Last(T) = userMsg[r][1]
                  /\ Last(h) = [role |-> "user", content |-> req[r].message]
         /\ (pc[r] = "calling" /\ Steps(r)) => Len(history[r]) = Len(messages[r])
         /\ (Succeeds(r) /\ GetMessages(req[r].sessionId) = messages[r]) =>
              Len(TranscriptOf(store', req[r].sessionId)) = Len(history[r]) + 1]_vars

\* the second of two sequential successful requests on one session: it sent
\* the first turn and its own user message, and the transcript holds 4
C6_Witness ==
    \E r \in Reqs :
        /\ pc[r] = "responded"
        /\ response[r].status = 200
        /\ Len(history[r]) = 3
        /\ history[r][1].role = "user"
        /\ history[r][2].role = "assistant"
        /\ history[r][3] = [role |-> "user", content |-> req[r].message]
        /\ Len(GetMessages(req[r].sessionId)) = 4
        /\ Front(GetMessages(req[r].sessionId)) = messages[r]

\* the response body carries no textual content field
NoTextContent(d) ==
    \/ d.choices = None
    \/ d.choices[1] = <<>>
    \/ d.choices[1][1].message = None
    \/ d.choices[1][1].message[1].content = None

(* C7: a successful provider response without a textual content field makes *)
(* the request succeed with an assistant message whose content is the       *)
(* sentinel.                                                                *)
C7_MissingContentYieldsSentinel ==
    \A r \in Reqs :
        (pc[r] = "responded" /\ data[r] \in ResponseBodies /\ NoTextContent(data[r]))
        => /\ response[r].status = 200
           /\ response[r].message # None
           /\ response[r].message[1].content = Sentinel
           /\ response[r].message[1].role = "assistant"

(* C8: every assistant message of a transcript is preceded in it by a user  *)
(* message of the same session.                                             *)
C8_AssistantPrecededByUser ==
    \A s \in Sessions :
        LET T == GetMessages(s)
        IN  \A i \in 1..Len(T) :
                T[i].role = "assistant" => \E j \in 1..(i - 1) : T[j].role = "user"

(* C9: every stored user message has no provider, and every stored          *)
(* assistant message has the provider that was called for it.               *)
C9_UserMessagesHaveNoProvider ==
    \A i \in 1..Len(store) :
        /\ store[i].role = "user" => store[i].provider = ""
        /\ store[i].role = "assistant" => store[i].provider \in Handled

(* C10: no stored message has empty or whitespace-only content; a request   *)
(* whose message is empty or whitespace-only ends in an error with nothing  *)
(* stored for it.                                                           *)
C10_NoEmptyContentStored ==
    /\ \A i \in 1..Len(store) : Trim(store[i].content) # <<>>
    /\ \A r \in Reqs :
         (pc[r] \notin {"idle", "closed"} /\ Trim(req[r].message) = <<>>)
         => /\ pc[r] = "responded"
            /\ response[r].status \in {400, 500}
            /\ userMsg[r] = None
    /\ \A r \in Reqs :
         (pc[r] = "responded" /\ response[r].status = 200)
         => Trim(response[r].message[1].content) # <<>>

\* a whitespace-only message has been rejected, after an empty reply of an
\* earlier request was stored as the sentinel
C10_Witness ==
    \E r \in Reqs :
        /\ pc[r] = "responded"
        /\ req[r].message = <<SP>>
        /\ response[r].status = 500
        /\ Len(store) = 2
        /\ store[2].role = "assistant"
        /\ store[2].content = Sentinel

\* the sessions whose transcript a step changes
Changed == {t \in Sessions : TranscriptOf(store', t) # TranscriptOf(store, t)}

(* C11: a chat, list or clear request on a session leaves the transcript of *)
(* every other session as it is: a step changes the transcript of at most   *)
(* one session, the one of the chat request taking the step or the one      *)
(* being cleared; a list request changes none and answers with messages of  *)
(* its session only; the history a chat request sends is made of the        *)
(* messages of its session only.                                            *)
C11_OtherSessionsUntouched ==
    [][/\ Cardinality(Changed) <= 1
       /\ \A r \in Reqs : (Steps(r) /\ pc'[r] # "closed") => Changed \subseteq {req'[r].sessionId}
       /\ (\A r \in Reqs : ~Steps(r)) =>
            \A t \in Changed : TranscriptOf(store', t) = <<>>
       /\ listing' # listing => store' = store
       /\ listing' # None =>
            \A i \in 1..Len(listing'[1].messages) :
                listing'[1].messages[i].sessionId = listing'[1].sessionId
       /\ \A r \in Reqs :
            (pc[r] = "userStored" /\ pc'[r] = "calling") =>
               /\ \A i \in 1..Len(messages'[r]) : messages'[r][i].sessionId = req[r].sessionId
               /\ Len(history'[r]) = Len(GetMessages(req[r].sessionId))
               /\ \A t \in Sessions \ {req[r].sessionId} :
                    \A i \in 1..Len(GetMessages(t)) :
                        \A j \in 1..Len(messages'[r]) : GetMessages(t)[i] # messages'[r][j]]_vars

\* a chat request on one session is waiting for its provider while the other
\* session holds messages, and a list of the other session is being answered
C11_Witness ==
    \E r \in Reqs :
        /\ pc[r] = "calling"
        /\ listing # None
        /\ listing[1].sessionId # req[r].sessionId
        /\ listing[1].messages # <<>>
        /\ Len(history[r]) = 1

\* request r sends its response
Responds(r) == pc[r] # "responded" /\ pc'[r] = "responded"

(* C12: every chat request is answered exactly once before it ends; a body  *)
(* the schema rejects is answered with status 400 and the store unchanged,  *)
(* any other failure with status 500, an error text, no message and the     *)
(* store unchanged by the failing step, and status 200 is answered only by  *)
(* the step that appends the assistant message it returns.                  *)
C12_FailuresAnsweredAsErrors ==
    [][\A r \in Reqs :
         /\ Responds(r) =>
              LET resp == response'[r]
              IN  /\ resp.status \in {200, 400, 500}
                  /\ resp.status = 400 <=>
                       (req'[r].message = <<>> \/ req'[r].provider \notin ProviderEnum)
                  /\ resp.status = 400 =>
                       /\ pc[r] = "idle"
                       /\ userMsg'[r] = None
                       /\ resp.error = "Invalid request data"
                  /\ resp.status # 200 =>
                       /\ resp.error # ""
                       /\ resp.message = None
                       /\ store' = store
                  /\ resp.status = 200 =>
                       /\ resp.error = ""
                       /\ resp.message # None
                       /\ store' = Append(store, resp.message[1])
                       /\ resp.message[1].role = "assistant"
         /\ response'[r] # response[r] => (Responds(r) \/ pc'[r] = "closed")
         /\ (pc[r] # "closed" /\ pc'[r] = "closed") =>
              /\ pc[r] = "responded"
              /\ response[r].status # 0]_vars

\* a request is answered 400 while the store holds the two messages of an
\* earlier, successful request
C12_Witness ==
    \E r \in Reqs :
        /\ pc[r] = "responded"
        /\ response[r].status = 400
        /\ req[r].provider = "bard"
        /\ Len(store) = 2
        /\ store[2].role = "assistant"

(* C13: every chat request whose provider call has started is eventually   *)
(* answered, also when the provider never answers.                          *)
C13_EveryCallIsAnswered ==
    \A r \in Reqs : (pc[r] = "calling") ~> (pc[r] = "responded")

CountRole(T, role) == Cardinality({i \in DOMAIN T : T[i].role = role})

\* requests on session s whose user message is stored and that have not
\* been answered yet
Unanswered(s) ==
    {r \in Reqs : /\ pc[r] \in {"userStored", "calling", "received", "extracted"}
                  /\ req[r].sessionId = s}

C15_AssistantsOweUsers ==
    \A s \in Sessions :
        LET T == TranscriptOf(store, s)
        IN  /\ CountRole(T, "assistant") + Cardinality(Unanswered(s)) <= CountRole(T, "user")
            /\ \A r \in Unanswered(s) : \E i \in DOMAIN T : T[i] = userMsg[r][1]
            /\ \A r \in Reqs :
                 (pc[r] = "responded" /\ response[r].status = 200 /\ req[r].sessionId = s)
                     => \E i, j \in DOMAIN T : /\ i < j
                                               /\ T[i] = userMsg[r][1]
                                               /\ T[i].role = "user"
                                               /\ T[j] = response[r].message[1]
                                               /\ T[j].role = "assistant"

C15_OneAppendPerOutcome ==
    /\ \A r \in Reqs :
         /\ Accepted(r) => /\ store' = Append(store, userMsg'[r][1])
                           /\ userMsg'[r][1].role = "user"
         /\ Succeeds(r) => /\ store' = Append(store, response'[r].message[1])
                           /\ response'[r].message[1].role = "assistant"
                           /\ \E i \in DOMAIN store : store[i] = userMsg[r][1]
    /\ (\A r \in Reqs : ~Accepted(r) /\ ~Succeeds(r)) => store' = store

(* C15: with chat requests in flight together and no clear, in every state  *)
(* the transcript of a session holds at most as many assistant messages as  *)
(* user messages (one user message more for every request not answered      *)
(* yet), a request's assistant message comes after that request's own user  *)
(* message, and the store grows by exactly one user message at each         *)
(* acceptance and one assistant message at each success and by nothing      *)
(* else, so that once all requests have ended it holds one user message per *)
(* accepted request and one assistant message per successful one.           *)
C15_ConcurrentRequestsKeepPairs ==
    []C15_AssistantsOweUsers /\ [][C15_OneAppendPerOutcome]_vars

\* two requests on one session were in flight together and both succeeded:
\* two user messages followed by two assistant messages
C15_Witness ==
    /\ Len(store) = 4
    /\ \A i \in 1..4 : store[i].sessionId = "s1"
    /\ store[1].role = "user" /\ store[2].role = "user"
    /\ store[3].role = "assistant" /\ store[4].role = "assistant"
    /\ \E r \in Reqs : /\ pc[r] = "responded"
                       /\ response[r].message = Some(store[4])
                       /\ userMsg[r] = Some(store[1])

\* at most one execution of mutationFn, and isPending says whether there is one
C16_OneSendInFlight ==
    /\ Len(inflight) <= 1
    /\ isPending <=> Len(inflight) = 1
    /\ sends <= MaxSends

\* a request is issued only by a call of mutate, which handleSendMessage
\* makes only past its guards and with the trimmed input
C16_SendsPastGuardsOnly ==
    /\ (Len(inflight') > Len(inflight) \/ \E j \in DOMAIN posts' : posts'[j].url = "/api/chat"
                                                                   /\ posts'[j].id > sends)
           => sends' = sends + 1
    /\ sends' # sends =>
         /\ sends' = sends + 1
         /\ ~isPending
         /\ inflight = <<>>
         /\ Trim(pageMessage) # <<>>
         /\ pageProvider # "puter" => Trim(apiKey) # <<>>
         /\ Len(inflight') = 1
         /\ inflight'[1].request = [message |-> Trim(pageMessage), provider |-> pageProvider,
                                    sessionId |-> PageSession,
                                    apiKey |-> IF pageProvider = "puter" THEN None
                                                                         ELSE Some(apiKey)]
         /\ isPending'

(* C16: one chat page has at most one send in flight at any time:           *)
(* handleSendMessage starts a send only when none is pending, the trimmed   *)
(* input is not empty and, for a provider other than puter, the trimmed API *)
(* key is not empty; the message sent is the trimmed input.                 *)
C16_AtMostOneSendInFlight ==
    []C16_OneSendInFlight /\ [][C16_SendsPastGuardsOnly]_vars

\* a second send, after the first one settled, is in flight with the text
\* of the input trimmed
C16_Witness ==
    /\ sends = 2
    /\ isPending
    /\ Len(inflight) = 1
    /\ pageMessage = <<SP,"h","i">>
    /\ inflight[1].request.message = <<"h","i">>
    /\ inflight[1].request.provider = "deepseek"
    /\ inflight[1].request.apiKey = Some(<<"k">>)

\* the texts the page may post as the assistant reply
AiContents == {AiContent(resp) : resp \in PuterResponses}

\* the requests on the network issued by the mutation with the given id
PostsOf(id) == SelectSeq(posts, LAMBDA p : p.id = id)

C17_PuterPostsReplyOnly ==
    /\ \A j \in DOMAIN posts : posts[j].url = "/api/chat" => posts[j].body.provider # "puter"
    /\ \A i \in DOMAIN inflight :
         inflight[i].request.provider = "puter" =>
             LET mine == PostsOf(inflight[i].id)
             IN  /\ inflight[i].step \in {"puter", "storing"}
                 /\ Len(mine) = IF inflight[i].step = "storing" THEN 1 ELSE 0
                 /\ \A j \in DOMAIN mine :
                      /\ mine[j].url = "/api/ai-response"
                      /\ DOMAIN mine[j].body = {"content", "provider", "sessionId"}
                      /\ mine[j].body.provider = "puter"
                      /\ mine[j].body.sessionId = PageSession
                      /\ mine[j].body.content \in AiContents
                 /\ Last(inflight[i].history) =
                        [role |-> "user", content |-> inflight[i].request.message]

C17_PuterSteps ==
    /\ (sends' # sends /\ pageProvider = "puter") =>
         /\ posts' = posts
         /\ Last(inflight').step = "puter"
         /\ Last(inflight').history =
                ConversationHistory(CachedMessages)
                    \o <<[role |-> "user", content |-> Trim(pageMessage)]>>
    /\ \A i \in DOMAIN inflight :
         inflight[i].request.provider = "puter" =>
             LET id   == inflight[i].id
                 gone == \A k \in DOMAIN inflight' : inflight'[k].id # id
             IN  /\ (inflight[i].step = "puter" /\ gone) => posts' = posts
                 /\ (inflight[i].step = "puter" /\ ~gone /\ posts' # posts) =>
                      \E resp \in PuterResponses :
                          posts' = Append(posts,
                                     [id |-> id, url |-> "/api/ai-response",
                                      body |-> [content |-> AiContent(resp), provider |-> "puter",
                                                sessionId |-> PageSession]])
                 /\ inflight[i].step = "storing" => Len(posts') <= Len(posts)

(* C17: a send with provider puter never posts to /api/chat: its history is *)
(* the cached message list mapped to role and content with the new user     *)
(* message last; when the provider call resolves the page posts exactly one *)
(* request, to /api/ai-response, carrying the reply text, provider puter    *)
(* and the session; when the call fails it posts nothing; no request of     *)
(* such a send carries the user's message.                                  *)
C17_PuterBypassesChatRoute ==
    []C17_PuterPostsReplyOnly /\ [][C17_PuterSteps]_vars

\* a puter send built its history from two cached messages, the provider
\* answered with no text and the sentinel is being posted
C17_Witness ==
    /\ Len(inflight) = 1
    /\ inflight[1].request.provider = "puter"
    /\ inflight[1].step = "storing"
    /\ Len(inflight[1].history) = 3
    /\ inflight[1].history[3] = [role |-> "user", content |-> <<"h","i">>]
    /\ Len(posts) = 1
    /\ posts[1].url = "/api/ai-response"
    /\ posts[1].body.content = Sentinel

=============================================================================
